---- MODULE Spec2Model ----
(***************************************************************************)
(* A model of john_widgets/trie_core.py: the TrieManager class, which      *)
(* builds a character trie from a delimited CSV column, persists it as     *)
(* JSON next to the source, reloads it, and answers prefix queries.        *)
(*                                                                         *)
(* Text is a sequence of one-character strings; a Python value that can    *)
(* reach search() or come back from it is a record tagged with its type;   *)
(* a dict-of-dicts trie is a function from the path of a node (the keys    *)
(* walked from the root) to that node's own keys, in dict insertion order, *)
(* and its "__ids__" list.                                                 *)
(***************************************************************************)
EXTENDS Integers, Sequences, FiniteSets, TLC

VARIABLES
    trie,        \* the dict _add_to_trie is filling (temp_root of a build)
    hist,        \* ghost: the (word, doc_id) arguments of the calls so far
    pending,     \* rows of the dataframe the build loop has not consumed yet
    query,       \* the argument of the last search() call
    result,      \* what that call did: the exception raised, the list returned
    clock,       \* the time the file system stamps a write with
    source,      \* the file at source_csv
    output,      \* the file at output_json
    trie_root,   \* self.trie_root of the manager last constructed
    call         \* what the last TrieManager(...) call saw and did

trieVars == <<trie, hist, pending, query, result>>

fileVars == <<clock, source, output, trie_root, call>>

vars == <<trie, hist, pending, query, result,
          clock, source, output, trie_root, call>>

(***************************************************************************)
(* Bounds of the model.                                                    *)
(***************************************************************************)
MaxAdds == 3

Ids == {1, 2}

(***************************************************************************)
(* Python values.                                                          *)
(***************************************************************************)
PyNone == [type |-> "NoneType", s |-> <<>>, n |-> 0, ids |-> <<>>]

PyStr(s) == [type |-> "str", s |-> s, n |-> 0, ids |-> <<>>]

PyInt(n) == [type |-> "int", s |-> <<>>, n |-> n, ids |-> <<>>]

PyTuple(s, ids) == [type |-> "tuple", s |-> s, n |-> 0, ids |-> ids]

\* bool(value) is False: what `not prefix` tests.
Falsy(v) ==
    \/ v.type = "NoneType"
    \/ v.type = "str" /\ v.s = <<>>
    \/ v.type = "int" /\ v.n = 0

(***************************************************************************)
(* str.lower(), str.strip(), str.split(sep).                               *)
(***************************************************************************)
UpperCase == <<"A", "B", "G", "O", "T", "M", "Z">>

LowerCase == <<"a", "b", "g", "o", "t", "m", "z">>

Whitespace == {" ", "\t"}

Lower(c) ==
    IF \E i \in DOMAIN UpperCase : UpperCase[i] = c
    THEN LowerCase[CHOOSE i \in DOMAIN UpperCase : UpperCase[i] = c]
    ELSE c

LowerStr(s) == [i \in 1..Len(s) |-> Lower(s[i])]

RECURSIVE LStrip(_)
LStrip(s) ==
    IF s # <<>> /\ Head(s) \in Whitespace THEN LStrip(Tail(s)) ELSE s

RECURSIVE RStrip(_)
RStrip(s) ==
    IF s # <<>> /\ s[Len(s)] \in Whitespace
    THEN RStrip(SubSeq(s, 1, Len(s) - 1))
    ELSE s

Strip(s) == RStrip(LStrip(s))

\* s.split(sep): the pieces between separators, empty pieces kept.
RECURSIVE SplitFrom(_, _, _, _)
SplitFrom(s, sep, i, cur) ==
    IF i > Len(s) THEN <<cur>>
    ELSE IF s[i] = sep THEN <<cur>> \o SplitFrom(s, sep, i + 1, <<>>)
    ELSE SplitFrom(s, sep, i + 1, Append(cur, s[i]))

Split(s, sep) == SplitFrom(s, sep, 1, <<>>)

(***************************************************************************)
(* The trie.                                                               *)
(***************************************************************************)
IdsKey == "__ids__"

EmptyNode == [keys |-> <<>>, ids |-> <<>>]

EmptyTrie == (<<>> :> EmptyNode)

\* `key in node` for the dict at `path`.
HasKey(root, path, key) ==
    \E i \in DOMAIN root[path].keys : root[path].keys[i] = key

InSeq(x, seq) == \E i \in DOMAIN seq : seq[i] = x

\* The loop of _add_to_trie from character i on: one edge per character,
\* created (node[char] = {}) when missing.
RECURSIVE Descend(_, _, _)
Descend(root, clean_word, i) ==
    IF i > Len(clean_word) THEN root
    ELSE LET node == SubSeq(clean_word, 1, i - 1)
             char == clean_word[i]
             child == SubSeq(clean_word, 1, i)
             grown == IF HasKey(root, node, char)
                      THEN root
                      ELSE (child :> EmptyNode) @@
                           [root EXCEPT ![node].keys = Append(@, char)]
         IN  Descend(grown, clean_word, i + 1)

\* _add_to_trie with a fault: the `doc_id not in node["__ids__"]` test dropped.
add_to_trie_nodedup(root, word, doc_id) ==
    LET clean_word == Strip(LowerStr(word))
        walked == Descend(root, clean_word, 1)
        marked == IF HasKey(walked, clean_word, IdsKey)
                  THEN walked
                  ELSE [walked EXCEPT ![clean_word].keys = Append(@, IdsKey)]
    IN  IF clean_word = <<>> THEN root
        ELSE [marked EXCEPT ![clean_word].ids = Append(@, doc_id)]

\* _add_to_trie with a fault: the word is not lower-cased before insertion.
add_to_trie_nolower(root, word, doc_id) ==
    LET clean_word == Strip(word)
        walked == Descend(root, clean_word, 1)
        marked == IF HasKey(walked, clean_word, IdsKey)
                  THEN walked
                  ELSE [walked EXCEPT ![clean_word].keys = Append(@, IdsKey)]
    IN  IF clean_word = <<>> THEN root
        ELSE IF InSeq(doc_id, marked[clean_word].ids) THEN marked
        ELSE [marked EXCEPT ![clean_word].ids = Append(@, doc_id)]

\* TrieManager._add_to_trie(trie, word, doc_id): the dict afterwards.
add_to_trie(root, word, doc_id) ==
    LET clean_word == Strip(LowerStr(word))
        walked == Descend(root, clean_word, 1)
        marked == IF HasKey(walked, clean_word, IdsKey)
                  THEN walked
                  ELSE [walked EXCEPT ![clean_word].keys = Append(@, IdsKey)]
    IN  IF clean_word = <<>> THEN root
        ELSE IF InSeq(doc_id, marked[clean_word].ids) THEN marked
        ELSE [marked EXCEPT ![clean_word].ids = Append(@, doc_id)]

\* The inner loop of the build: every item of one split cell is added.
RECURSIVE AddItems(_, _, _)
AddItems(root, items, doc_id) ==
    IF items = <<>> THEN root
    ELSE AddItems(add_to_trie(root, Head(items), doc_id), Tail(items), doc_id)

\* One iteration of the build loop: a NaN cell is skipped, any other cell is
\* split by the separator and its items added under the row's id.
AddRow(root, row, separator) ==
    IF row.na THEN root
    ELSE AddItems(root, Split(row.cell, separator), row.id)

RECURSIVE BuildTrie(_, _, _)
BuildTrie(root, rows, separator) ==
    IF rows = <<>> THEN root
    ELSE BuildTrie(AddRow(root, Head(rows), separator), Tail(rows), separator)

\* The (word, doc_id) calls one row makes, for the ghost history.
RowCalls(row, separator) ==
    IF row.na THEN <<>>
    ELSE LET items == Split(row.cell, separator)
         IN  [i \in 1..Len(items) |-> [word |-> items[i], id |-> row.id]]

(***************************************************************************)
(* search and _dfs.                                                        *)
(***************************************************************************)
RECURSIVE dfs(_, _)
RECURSIVE dfs_items(_, _, _)

\* _dfs with a fault: a terminal node is reported after its descendants.
dfs_postorder(root, current_word) ==
    dfs_items(root, current_word, 1) \o
    (IF HasKey(root, current_word, IdsKey)
     THEN <<PyStr(current_word)>> ELSE <<>>)

\* TrieManager._dfs(node, current_word, results): what it appends.
dfs(root, current_word) ==
    (IF HasKey(root, current_word, IdsKey)
     THEN <<PyStr(current_word)>> ELSE <<>>) \o
    dfs_items(root, current_word, 1)

\* The `for char, child_node in node.items()` loop of _dfs from item i on.
dfs_items(root, current_word, i) ==
    IF i > Len(root[current_word].keys) THEN <<>>
    ELSE LET char == root[current_word].keys[i]
         IN  (IF char # IdsKey
              THEN dfs(root, Append(current_word, char)) ELSE <<>>) \o
             dfs_items(root, current_word, i + 1)

\* The walk of search() along the prefix: TRUE when every character has an
\* edge.
RECURSIVE Reaches(_, _, _)
Reaches(root, prefix, i) ==
    IF i > Len(prefix) THEN TRUE
    ELSE /\ HasKey(root, SubSeq(prefix, 1, i - 1), prefix[i])
         /\ Reaches(root, prefix, i + 1)

NoCall == [called |-> FALSE, raised |-> "none", value |-> <<>>]

Returned(value) == [called |-> TRUE, raised |-> "none", value |-> value]

Raised(exception) == [called |-> TRUE, raised |-> exception, value |-> <<>>]

\* TrieManager.search(prefix) on the trie `root`.
search(root, prefix) ==
    IF Falsy(prefix) THEN Returned(<<>>)
    ELSE IF prefix.type = "int" THEN Raised("TypeError")   \* len(int)
    ELSE IF Len(prefix.s) < 1 THEN Returned(<<>>)
    ELSE LET lowered == LowerStr(prefix.s)
         IN  IF Reaches(root, lowered, 1)
             THEN Returned(dfs(root, lowered))
             ELSE Returned(<<>>)

(***************************************************************************)
(* json.dump(temp_root, f, separators=(',', ':')) and json.load(f), over   *)
(* the tokens of the text: punctuation, a quoted string, a number.         *)
(***************************************************************************)
P(s) == [t |-> "punct", s |-> s, n |-> 0]

K(s) == [t |-> "str", s |-> s, n |-> 0]

N(n) == [t |-> "num", s |-> "", n |-> n]

EndOfText == [t |-> "eof", s |-> "", n |-> 0]

RECURSIVE dump_list(_, _)
dump_list(ids, i) ==
    IF i > Len(ids) THEN <<>>
    ELSE (IF i > 1 THEN <<P(",")>> ELSE <<>>) \o <<N(ids[i])>> \o
         dump_list(ids, i + 1)

RECURSIVE dump_node(_, _)
RECURSIVE dump_items(_, _, _)
dump_node(root, path) ==
    <<P("{")>> \o dump_items(root, path, 1) \o <<P("}")>>

dump_items(root, path, i) ==
    IF i > Len(root[path].keys) THEN <<>>
    ELSE LET key == root[path].keys[i]
         IN  (IF i > 1 THEN <<P(",")>> ELSE <<>>) \o <<K(key), P(":")>> \o
             (IF key = IdsKey
              THEN <<P("[")>> \o dump_list(root[path].ids, 1) \o <<P("]")>>
              ELSE dump_node(root, Append(path, key))) \o
             dump_items(root, path, i + 1)

\* The whole text json.dump writes for the dict `root`.
JsonDump(root) == dump_node(root, <<>>)

At(text, i) == IF i \in DOMAIN text THEN text[i] ELSE EndOfText

Unparsed == [ok |-> FALSE, next |-> 0, nodes |-> EmptyTrie, ids |-> <<>>]

\* A JSON array of numbers from its first element on; `ids` is what was
\* read so far.
RECURSIVE parse_list(_, _, _)
parse_list(text, i, ids) ==
    IF At(text, i).t # "num" THEN Unparsed
    ELSE LET read == Append(ids, At(text, i).n)
         IN  IF At(text, i + 1) = P(",") THEN parse_list(text, i + 2, read)
             ELSE IF At(text, i + 1) = P("]")
             THEN [ok |-> TRUE, next |-> i + 2, nodes |-> EmptyTrie,
                   ids |-> read]
             ELSE Unparsed

parse_array(text, i) ==
    IF At(text, i) # P("[") THEN Unparsed
    ELSE IF At(text, i + 1) = P("]")
    THEN [ok |-> TRUE, next |-> i + 2, nodes |-> EmptyTrie, ids |-> <<>>]
    ELSE parse_list(text, i + 1, <<>>)

\* A JSON object at token i, decoded into the dict at `path`.
RECURSIVE parse_node(_, _, _)
RECURSIVE parse_items(_, _, _, _)
parse_node(text, i, path) ==
    IF At(text, i) # P("{") THEN Unparsed
    ELSE IF At(text, i + 1) = P("}")
    THEN [ok |-> TRUE, next |-> i + 2, nodes |-> (path :> EmptyNode),
          ids |-> <<>>]
    ELSE parse_items(text, i + 1, path, (path :> EmptyNode))

parse_items(text, i, path, acc) ==
    LET key == At(text, i)
        val == IF key.s = IdsKey
               THEN parse_array(text, i + 2)
               ELSE parse_node(text, i + 2, Append(path, key.s))
        got == IF key.s = IdsKey
               THEN [acc EXCEPT ![path].keys = Append(@, IdsKey),
                                ![path].ids = val.ids]
               ELSE val.nodes @@ [acc EXCEPT ![path].keys = Append(@, key.s)]
    IN  IF key.t # "str" \/ At(text, i + 1) # P(":") THEN Unparsed
        ELSE IF ~val.ok THEN Unparsed
        ELSE IF At(text, val.next) = P(",")
        THEN parse_items(text, val.next + 1, path, got)
        ELSE IF At(text, val.next) = P("}")
        THEN [ok |-> TRUE, next |-> val.next + 1, nodes |-> got, ids |-> <<>>]
        ELSE Unparsed

\* json.load of the text: the dict, or JSONDecodeError (ok = FALSE).
JsonLoad(text) ==
    LET doc == parse_node(text, 1, <<>>)
    IN  IF doc.ok /\ doc.next = Len(text) + 1
        THEN [ok |-> TRUE, value |-> doc.nodes]
        ELSE [ok |-> FALSE, value |-> EmptyTrie]

(***************************************************************************)
(* Inputs.                                                                 *)
(***************************************************************************)
Separator == ";"

Row(id, cell) == [id |-> id, cell |-> cell, na |-> FALSE]

NaRow(id) == [id |-> id, cell |-> <<>>, na |-> TRUE]

\* Raw words handed to _add_to_trie: "a", "Ab", " aa ", "B" and the blank " ".
Words ==
    { <<"a">>, <<"A", "b">>, <<" ", "a", "a", " ">>, <<"B">>, <<" ">> }

\* Arguments handed to search: None, 0, 5, "", "a", "A", "b", "ab", "aa",
\* " a", "z".
Prefixes ==
    { PyNone, PyInt(0), PyInt(5), PyStr(<<>>),
      PyStr(<<"a">>), PyStr(<<"A">>), PyStr(<<"b">>), PyStr(<<"a", "b">>),
      PyStr(<<"a", "a">>), PyStr(<<" ", "a">>), PyStr(<<"z">>) }

Tomato == <<"t", "o", "m", "a", "t", "o">>

Onion == <<"o", "n", "i", "o", "n">>

Garlic == <<"g", "a", "r", "l", "i", "c">>

\* The rows (1,"Tomato;Onion"), (2,"tomato;Garlic"), (3,"Onion").
ScenarioRows ==
    << Row(1, <<"T", "o", "m", "a", "t", "o", ";", "O", "n", "i", "o", "n">>),
       Row(2, <<"t", "o", "m", "a", "t", "o", ";", "G", "a", "r", "l", "i", "c">>),
       Row(3, <<"O", "n", "i", "o", "n">>) >>

Tom == <<"t", "o", "m">>

PaddedTom == <<" ", " ", "T", "O", "M", " ", " ">>

\* The queries put to the scenario's index: every prefix of its tokens, the
\* three spellings of "tom", and strings that match nothing.
ScenarioPrefixes ==
    { PyStr(SubSeq(Tomato, 1, k)) : k \in 1..Len(Tomato) } \cup
    { PyStr(SubSeq(Onion, 1, k)) : k \in 1..Len(Onion) } \cup
    { PyStr(SubSeq(Garlic, 1, k)) : k \in 1..Len(Garlic) } \cup
    { PyStr(<<"T", "o", "m">>), PyStr(PaddedTom), PyStr(<<"z">>),
      PyStr(<<"O", "N">>), PyStr(<<"t", "o", "m", " ">>),
      PyStr(<<"o", "m">>), PyStr(<<"t", "o", "n">>),
      PyStr(Append(Tomato, "z")), PyStr(<<"G">>), PyStr(<<" ">>),
      PyStr(<<>>), PyNone }

(***************************************************************************)
(* The trie in memory: calls of _add_to_trie and search.                   *)
(***************************************************************************)
NoSource == [exists |-> FALSE, mtime |-> 0, usable |-> FALSE, rows |-> <<>>]

NoOutput == [exists |-> FALSE, mtime |-> 0, content |-> <<>>]

\* No construction has returned since the files last changed.
NoConstruct ==
    [done |-> FALSE, input_mtime |-> 0, output_mtime |-> 0, skipped |-> FALSE,
     source_error |-> "none", write |-> "none", raised |-> "none",
     load_error |-> "none", before |-> NoOutput]

FilesIdle ==
    /\ clock = 1
    /\ source = NoSource
    /\ output = NoOutput
    /\ trie_root = EmptyTrie
    /\ call = NoConstruct

InitTrie ==
    /\ trie = EmptyTrie
    /\ hist = <<>>
    /\ pending = <<>>
    /\ query = PyNone
    /\ result = NoCall
    /\ FilesIdle

\* self._add_to_trie(trie, word, doc_id)
AddToTrie(word, doc_id) ==
    /\ Len(hist) < MaxAdds
    /\ trie' = add_to_trie(trie, word, doc_id)
    /\ hist' = Append(hist, [word |-> word, id |-> doc_id])
    /\ query' = PyNone
    /\ result' = NoCall
    /\ UNCHANGED <<pending, fileVars>>

\* search(prefix) on the trie as it stands
Search(prefix) ==
    /\ query' = prefix
    /\ result' = search(trie, prefix)
    /\ UNCHANGED <<trie, hist, pending, fileVars>>

NextTrie ==
    \/ \E word \in Words, doc_id \in Ids : AddToTrie(word, doc_id)
    \/ \E prefix \in Prefixes : Search(prefix)

SpecTrie == InitTrie /\ [][NextTrie]_vars

(***************************************************************************)
(* The scenario: the build loop over ScenarioRows, one row an iteration,   *)
(* and queries against the index.                                          *)
(***************************************************************************)
InitScenario ==
    /\ trie = EmptyTrie
    /\ hist = <<>>
    /\ pending = ScenarioRows
    /\ query = PyNone
    /\ result = NoCall
    /\ FilesIdle

\* One iteration of `for doc_id, data_str in zip(...)`.
BuildRow ==
    /\ pending # <<>>
    /\ trie' = AddRow(trie, Head(pending), Separator)
    /\ hist' = hist \o RowCalls(Head(pending), Separator)
    /\ pending' = Tail(pending)
    /\ query' = PyNone
    /\ result' = NoCall
    /\ UNCHANGED fileVars

NextScenario ==
    \/ BuildRow
    \/ \E prefix \in ScenarioPrefixes : Search(prefix)

SpecScenario == InitScenario /\ [][NextScenario]_vars

(***************************************************************************)
(* The files and the constructor.  A file is stamped with the clock when   *)
(* it is written; the clock never runs backwards.                          *)
(***************************************************************************)
MaxClock == 3

\* The dataframes the source can hold: [(1,"a")] and
\* [(1,"A;b"), (2,NaN), (2," a")].
Sources ==
    { << Row(1, <<"a">>) >>,
      << Row(1, <<"A", ";", "b">>), NaRow(2), Row(2, <<" ", "a">>) >> }

\* How writing the output can fail: not at all, at open(), inside json.dump.
Failures == {"none", "open", "dump"}

\* TrieManager._get_file_mtime(filepath): 0 for a file that is not there.
get_file_mtime(file) == IF file.exists THEN file.mtime ELSE 0

\* The freshness test with a fault: an output as old as the source is fresh.
up_to_date_or_equal(input_mtime, output_mtime) ==
    output_mtime >= input_mtime /\ output_mtime > 0

\* The freshness test with a fault: any output that exists is fresh.
up_to_date_if_present(input_mtime, output_mtime) ==
    output_mtime > 0

\* The test of _generate_trie_if_needed that skips the build.
up_to_date(input_mtime, output_mtime) ==
    output_mtime > input_mtime /\ output_mtime > 0

\* pd.read_csv(source_csv, usecols=[id_col, data_col]): the exception it
\* raises, if any.
read_csv_error(file) ==
    IF ~file.exists THEN "FileNotFoundError"
    ELSE IF ~file.usable THEN "ValueError"
    ELSE "none"

\* The text of the artifact a build from `file` writes.
BuildText(file) == JsonDump(BuildTrie(EmptyTrie, file.rows, Separator))

\* Where json.dump can be cut short: after any proper prefix of the text.
Cuts(failure) ==
    IF failure = "dump" THEN 0..(Len(BuildText(source)) - 1) ELSE {0}

InitFiles ==
    /\ trie = EmptyTrie
    /\ hist = <<>>
    /\ pending = <<>>
    /\ query = PyNone
    /\ result = NoCall
    /\ FilesIdle

Tick ==
    /\ clock < MaxClock
    /\ clock' = clock + 1
    /\ call' = NoConstruct
    /\ UNCHANGED <<source, output, trie_root, trieVars>>

\* The source CSV is (re)written: with both columns and the given rows, or,
\* usable = FALSE, without the data column.
WriteSource(rows, usable) ==
    /\ source' = [exists |-> TRUE, mtime |-> clock, usable |-> usable,
                  rows |-> IF usable THEN rows ELSE <<>>]
    /\ call' = NoConstruct
    /\ UNCHANGED <<clock, output, trie_root, trieVars>>

DeleteSource ==
    /\ source.exists
    /\ source' = NoSource
    /\ call' = NoConstruct
    /\ UNCHANGED <<clock, output, trie_root, trieVars>>

DeleteOutput ==
    /\ output.exists
    /\ output' = NoOutput
    /\ call' = NoConstruct
    /\ UNCHANGED <<clock, source, trie_root, trieVars>>

\* TrieManager(source_csv, output_json, id_col, data_col): __init__, that is
\* _generate_trie_if_needed and then _load_trie.  `failure` is how the write
\* of the output goes, `cut` how many tokens json.dump got out before failing.
Construct(failure, cut) ==
    LET input_mtime == get_file_mtime(source)
        output_mtime == get_file_mtime(output)
        skip == up_to_date(input_mtime, output_mtime)
        source_error == IF skip THEN "none" ELSE read_csv_error(source)
        saves == ~skip /\ source_error = "none"
        text == BuildText(source)
        saved == IF ~saves \/ failure = "open" THEN output
                 ELSE [exists |-> TRUE, mtime |-> clock,
                       content |-> IF failure = "dump"
                                   THEN SubSeq(text, 1, cut) ELSE text]
        write == IF ~saves THEN "none"
                 ELSE IF failure = "open" THEN "refused"
                 ELSE IF failure = "dump" THEN "cut"
                 ELSE "whole"
        raised == IF saves /\ failure # "none" THEN "OSError" ELSE "none"
        loaded == JsonLoad(saved.content)
        load_error == IF raised # "none" THEN "none"
                      ELSE IF ~saved.exists THEN "FileNotFoundError"
                      ELSE IF ~loaded.ok THEN "JSONDecodeError"
                      ELSE "none"
    IN  /\ failure # "none" => saves
        /\ output' = saved
        /\ trie_root' = IF raised = "none" /\ load_error = "none"
                        THEN loaded.value ELSE EmptyTrie
        /\ call' = [done |-> TRUE, input_mtime |-> input_mtime,
                    output_mtime |-> output_mtime, skipped |-> skip,
                    source_error |-> source_error, write |-> write,
                    raised |-> raised, load_error |-> load_error,
                    before |-> output]
        /\ UNCHANGED <<clock, source, trieVars>>

Next ==
    \/ Tick
    \/ \E rows \in Sources : WriteSource(rows, TRUE)
    \/ WriteSource(<<>>, FALSE)
    \/ DeleteSource
    \/ DeleteOutput
    \/ \E failure \in Failures : \E cut \in Cuts(failure) :
          Construct(failure, cut)

Spec == InitFiles /\ [][Next]_vars

(***************************************************************************)
(* Vocabulary of the properties.                                           *)
(***************************************************************************)
\* The normalized form of a raw word: case-folded, surrounding whitespace
\* removed.
Norm(word) == Strip(LowerStr(word))

\* The distinct nonempty normalized tokens inserted so far.
Tokens == { Norm(hist[i].word) : i \in DOMAIN hist } \ { <<>> }

IsPrefixOf(p, w) == Len(p) <= Len(w) /\ SubSeq(w, 1, Len(p)) = p

NoDup(seq) == \A i, j \in DOMAIN seq : i # j => seq[i] # seq[j]

Least(S) == CHOOSE i \in S : \A j \in S : i <= j

\* The calls whose nonempty normalized word is exactly `path`.
EndingAt(path) ==
    { i \in DOMAIN hist : path # <<>> /\ Norm(hist[i].word) = path }

\* The first call that inserted doc_id at `path`.
FirstInsertion(path, doc_id) ==
    Least({ i \in EndingAt(path) : hist[i].id = doc_id })

\* The first call whose token runs through `path`: the call that created
\* the node there.
FirstThrough(path) ==
    Least({ i \in DOMAIN hist : IsPrefixOf(path, Norm(hist[i].word)) })

\* Depth-first pre-order of two distinct tokens u, v: u is a proper prefix of
\* v, or at the first character where they part u's branch was created first.
PreOrder(u, v) ==
    LET parts == { k \in 1..Len(u) : k <= Len(v) /\ u[k] # v[k] }
    IN  IF parts = {}
        THEN Len(u) < Len(v)
        ELSE FirstThrough(SubSeq(u, 1, Least(parts))) <
             FirstThrough(SubSeq(v, 1, Least(parts)))

(***************************************************************************)
(* C9: after any sequence of _add_to_trie calls on an empty trie, a node   *)
(* carries "__ids__" exactly when a nonempty normalized token ends there   *)
(* (so the root never does), and its list holds each id inserted there     *)
(* once, in the order of first insertion.                                  *)
(***************************************************************************)
C9_IdsDedupedInFirstSeenOrder ==
    /\ ~HasKey(trie, <<>>, IdsKey)
    /\ \A path \in DOMAIN trie :
          LET ids == trie[path].ids
          IN  /\ HasKey(trie, path, IdsKey) <=> EndingAt(path) # {}
              /\ NoDup(ids)
              /\ { ids[k] : k \in DOMAIN ids } =
                 { hist[i].id : i \in EndingAt(path) }
              /\ \A a, b \in DOMAIN ids :
                    a < b => FirstInsertion(path, ids[a]) <
                             FirstInsertion(path, ids[b])

\* Three calls ending at one node, one of them a repeat, left the ids 2, 1.
C9_Witness ==
    \E path \in DOMAIN trie :
        /\ trie[path].ids = <<2, 1>>
        /\ Cardinality(EndingAt(path)) = 3

(***************************************************************************)
(* C10: for a nonempty, already-normalized prefix p, search(p) returns     *)
(* exactly the distinct normalized tokens inserted that start with p, each *)
(* once (p itself included when it is a token), in depth-first pre-order:  *)
(* a token before its extensions, children in insertion order.             *)
(***************************************************************************)
C10_SearchReturnsTokensInPreOrder ==
    (result.called /\ query.type = "str" /\ query.s # <<>>
        /\ Norm(query.s) = query.s)
    => LET got == result.value
       IN  /\ result.raised = "none"
           /\ \A k \in DOMAIN got : got[k].type = "str"
           /\ { got[k].s : k \in DOMAIN got } =
              { t \in Tokens : IsPrefixOf(query.s, t) }
           /\ NoDup(got)
           /\ \A a, b \in DOMAIN got : a < b => PreOrder(got[a].s, got[b].s)

\* search("a") returned "a", then "ab", then "aa": "ab" was inserted first.
C10_Witness ==
    /\ result.called
    /\ query = PyStr(<<"a">>)
    /\ result.value = <<PyStr(<<"a">>), PyStr(<<"a", "b">>), PyStr(<<"a", "a">>)>>

(***************************************************************************)
(* C6 as claimed: search never raises, and returns the empty list for a    *)
(* null, empty or non-string prefix and for a prefix with a character that *)
(* has no edge.                                                            *)
(***************************************************************************)
C6_SearchNeverRaises ==
    result.called =>
        /\ result.raised = "none"
        /\ (\/ query.type # "str"
            \/ query.s = <<>>
            \/ ~Reaches(trie, LowerStr(query.s), 1)) => result.value = <<>>

(***************************************************************************)
(* C3 as claimed: on the scenario's index search returns (token, ids)      *)
(* pairs: search("tom") is [("tomato",[1,2])], search("on") is             *)
(* [("onion",[1,3])], search("z") is [].                                   *)
(***************************************************************************)
ScenarioBuilt == pending = <<>> /\ hist # <<>>

C3_SearchReturnsPairs ==
    (ScenarioBuilt /\ result.called) =>
        /\ \A k \in DOMAIN result.value :
              /\ result.value[k].type = "tuple"
              /\ result.value[k].ids = trie[result.value[k].s].ids
        /\ query = PyStr(Tom) => result.value = <<PyTuple(Tomato, <<1, 2>>)>>
        /\ query = PyStr(<<"o", "n">>) =>
              result.value = <<PyTuple(Onion, <<1, 3>>)>>
        /\ query = PyStr(<<"z">>) => result.value = <<>>

(***************************************************************************)
(* C3 amended: on the scenario's index search returns the matched tokens   *)
(* alone, as strings, each the path of a node carrying "__ids__";          *)
(* search("tom") is ["tomato"], whose node holds the ids [1,2];            *)
(* search("on") is ["onion"], whose node holds [1,3]; search("z") is [].   *)
(***************************************************************************)
C3_SearchReturnsTokens ==
    (ScenarioBuilt /\ result.called) =>
        /\ result.raised = "none"
        /\ \A k \in DOMAIN result.value :
              /\ result.value[k].type = "str"
              /\ HasKey(trie, result.value[k].s, IdsKey)
        /\ query = PyStr(Tom) =>
              /\ result.value = <<PyStr(Tomato)>>
              /\ trie[Tomato].ids = <<1, 2>>
        /\ query = PyStr(<<"o", "n">>) =>
              /\ result.value = <<PyStr(Onion)>>
              /\ trie[Onion].ids = <<1, 3>>
        /\ query = PyStr(<<"z">>) => result.value = <<>>

C3_Witness ==
    /\ ScenarioBuilt
    /\ result.called
    /\ query = PyStr(Tom)
    /\ result.value = <<PyStr(Tomato)>>

(***************************************************************************)
(* C4 as claimed: search gives the same answer for every spelling of a     *)
(* prefix that differs only in letter case and in surrounding whitespace.  *)
(***************************************************************************)
C4_SearchNormalizesLikeBuild ==
    (result.called /\ query.type = "str") =>
        \A other \in ScenarioPrefixes :
            (other.type = "str" /\ Norm(other.s) = Norm(query.s))
            => search(trie, other) = result

(***************************************************************************)
(* C1: with a missing file counted as mtime 0, the constructor skips the   *)
(* build if and only if the output's mtime is strictly greater than the    *)
(* source's and nonzero; equal mtimes rebuild, and (0, 0) rebuilds.        *)
(***************************************************************************)
C1_SkipIffOutputStrictlyNewer ==
    call.done =>
        /\ call.input_mtime = (IF source.exists THEN source.mtime ELSE 0)
        /\ call.output_mtime =
              (IF call.before.exists THEN call.before.mtime ELSE 0)
        /\ call.skipped <=>
              (call.output_mtime > call.input_mtime /\ call.output_mtime > 0)

\* An output exactly as old as its source was not taken as fresh.
C1_Witness ==
    /\ call.done
    /\ call.before.exists
    /\ call.output_mtime = call.input_mtime
    /\ ~call.skipped

(***************************************************************************)
(* C7 as claimed: when the output's mtime is strictly greater than the     *)
(* source's the constructor performs no rebuild and leaves the artifact    *)
(* untouched; in every other case it performs a rebuild and the artifact's *)
(* mtime afterwards is greater than before.                                *)
(***************************************************************************)
C7_OtherwiseRebuiltAndNewer ==
    call.done =>
        IF call.output_mtime > call.input_mtime
        THEN call.skipped /\ output = call.before
        ELSE /\ call.write = "whole"
             /\ output.exists
             /\ output.mtime > call.output_mtime

(***************************************************************************)
(* C7 amended: when the output's mtime is strictly greater than the        *)
(* source's the constructor performs no rebuild and leaves the artifact    *)
(* untouched; in every other case it attempts a rebuild: if the source can *)
(* be read and the output opened, the artifact is rewritten and stamped    *)
(* with the current time, so its mtime is not less than before; if not,    *)
(* the artifact is left untouched.                                         *)
(***************************************************************************)
C7_FreshnessGating ==
    call.done =>
        IF call.output_mtime > call.input_mtime
        THEN call.skipped /\ output = call.before
        ELSE /\ ~call.skipped
             /\ IF call.source_error = "none" /\ call.write # "refused"
                THEN /\ output.exists
                     /\ output.mtime = clock
                     /\ output.mtime >= call.output_mtime
                ELSE output = call.before

\* A stale artifact was rebuilt from a readable source and its mtime moved on.
C7_Witness ==
    /\ call.done
    /\ call.before.exists
    /\ call.output_mtime <= call.input_mtime
    /\ call.write = "whole"
    /\ output.mtime > call.before.mtime
    /\ output.content # call.before.content

(***************************************************************************)
(* C2 as claimed: the output path never holds a truncated or half-written  *)
(* artifact, and a rebuild that fails during the write leaves a valid      *)
(* prior artifact in place, whole.                                         *)
(***************************************************************************)
C2_WriteIsAtomic ==
    /\ output.exists => JsonLoad(output.content).ok
    /\ (call.done /\ call.raised # "none" /\ call.before.exists
           /\ JsonLoad(call.before.content).ok) => output = call.before

(***************************************************************************)
(* C5 as claimed: loading an artifact that does not decode fails with an   *)
(* error signalled to the caller; the constructor never returns normally   *)
(* with an empty trie in its place.                                        *)
(***************************************************************************)
C5_CorruptArtifactIsSignalled ==
    (call.done /\ output.exists /\ ~JsonLoad(output.content).ok)
    => call.raised # "none"

(***************************************************************************)
(* C8 as claimed: when the source cannot be read during a build the        *)
(* constructor does not raise and the manager ends with an empty index,    *)
(* whatever artifact was at the output path.                               *)
(***************************************************************************)
C8_UnreadableSourceLeavesEmptyIndex ==
    (call.done /\ call.source_error # "none") =>
        /\ call.raised = "none"
        /\ trie_root = EmptyTrie
        /\ \A prefix \in Prefixes : search(trie_root, prefix).value = <<>>

====
